---- MODULE Spec2Model ----
(***************************************************************************)
(* Model of the libev adapter of nats.c (src/unnamed/part_000).  The file  *)
(* holds two variants of the adapter:                                      *)
(*   "idle" (lines 1-207):   write interest is an ev_idle watcher, and     *)
(*                           natsLibev_Read/Write send the ev_async        *)
(*                           keepActive after every toggle;                *)
(*   "io"   (lines 209-397): write interest is an ev_io watcher, and only  *)
(*                           natsLibev_Detach sends keepActive.            *)
(* The variant is fixed in the initial state.  The client thread and the   *)
(* reactor thread of every loop run the adapter's entry points one libev   *)
(* call at a time; every libev call is atomic.  The client library calls   *)
(* the entry points of one connection one at a time (its connection lock)  *)
(* and never after Detach.                                                 *)
(***************************************************************************)
EXTENDS Bags, FiniteSets, Integers, Sequences, TLC

\* ---------------------------------------------------------------- bounds
MaxSock  == 2
MaxAlloc == 2

\* ------------------------------------------------------------- constants
NULL == 0

Sockets  == 1..MaxSock
Addrs    == 1..MaxAlloc
Loops    == {"loop1", "loop2"}
Conns    == {"nc1", "nc2"}
Variants == {"idle", "io"}
client   == "client"
Threads  == {client} \cup Loops

EV_READ  == "EV_READ"
EV_WRITE == "EV_WRITE"
EV_IDLE  == "EV_IDLE"
EV_ASYNC == "EV_ASYNC"

NATS_OK        == "NATS_OK"
NATS_NO_MEMORY == "NATS_NO_MEMORY"

VARIABLES
    variant,    \* which of the two adapters is compiled in
    mem,        \* heap: address -> natsLibevEvents
    live,       \* addresses malloc'ed and not freed
    userData,   \* the client's handle (*userData of Attach): NULL or an address
    detached,   \* the client has called Detach
    stack,      \* per thread: the frames of the entry point it is running
    callLog,    \* per thread: the libev calls of the running entry point
    reg,        \* per loop: bag of started watchers [a, w, fd]
    wake,       \* per loop: a wake-up (ev_async_send) is signalled
    polled,     \* per loop: what the loop waits for: [set of (fd, ev), nowait]
    pend,       \* per loop: pending events [a, w, revents, fd]
    rstate,     \* per loop: where the reactor thread is
    cur,        \* per loop: the pending event whose callback runs
    cbLog,      \* per loop: the client hooks the running callback has invoked
    uaf,        \* a freed natsLibevEvents has been accessed
    toggled,    \* history: the client has called Read or Write
    stale       \* history: the sockets a later Attach has replaced

vars == <<variant, mem, live, userData, detached, stack, callLog, reg, wake,
          polled, pend, rstate, cur, cbLog, uaf, toggled, stale>>

adapterVars == <<variant, mem, live, userData, detached, stack, callLog, uaf,
                 toggled, stale>>
loopVars    == <<polled, rstate, cur, cbLog>>

\* ------------------------------------------------------- natsLibevEvents
NoWatcher == [active |-> FALSE, fd |-> NULL, events |-> {}, cb |-> "none",
              sent |-> FALSE, data |-> NULL]

natsLibevEvents == [nc |-> "nc1", loop |-> "loop1", read |-> NoWatcher,
                    write |-> NoWatcher, keepActive |-> NoWatcher]

NoFrame == [fn |-> "none", pc |-> "none", nle |-> NULL, add |-> FALSE,
            loop |-> "loop1", nc |-> "nc1", socket |-> NULL, status |-> NATS_OK]

NoPoll == [set |-> {}, nowait |-> FALSE]

NoEvent == [a |-> NULL, w |-> "none", revents |-> {}, fd |-> NULL]

\* ------------------------------------------------------------ the stacks
Top(t)       == stack[t][Len(stack[t])]
Running(t)   == stack[t] # <<>>
At(t, fn, pc) == Running(t) /\ Top(t).fn = fn /\ Top(t).pc = pc
Idle         == \A t \in Threads : stack[t] = <<>>

\* replace the top frame's pc
Goto(t, pc) == [stack EXCEPT ![t] = [@ EXCEPT ![Len(@)].pc = pc]]

\* set the caller's return label and push the callee's frame
Call(t, retpc, fn, nle, add) ==
    [stack EXCEPT ![t] = Append([@ EXCEPT ![Len(@)].pc = retpc],
        [NoFrame EXCEPT !.fn = fn, !.pc = "toggle", !.nle = nle, !.add = add])]

\* the log keeps, for every libev call, whether the watcher was active before it
Log(t, a, op, w) ==
    callLog' = [callLog EXCEPT ![t] =
                   Append(@, [op |-> op, w |-> w, active |-> mem[a][w].active])]

\* an access to *nle: set uaf when the block was freed
Touch(a) == uaf' = (uaf \/ a \notin live)

\* --------------------------------------------------------- libev watchers
WReg(a, w) == [a |-> a, w |-> w, fd |-> mem[a][w].fd]

ClearPending(l, a, w) == [pend EXCEPT ![l] = {p \in @ : ~(p.a = a /\ p.w = w)}]

ev_start(l, a, w) ==
    /\ pend' = pend
    /\ IF mem[a][w].active
       THEN UNCHANGED <<mem, reg>>
       ELSE /\ mem' = [mem EXCEPT ![a][w].active = TRUE]
            /\ reg' = [reg EXCEPT ![l] = @ (+) SetToBag({WReg(a, w)})]

ev_stop(l, a, w) ==
    /\ pend' = ClearPending(l, a, w)
    /\ IF ~mem[a][w].active
       THEN UNCHANGED <<mem, reg>>
       ELSE /\ mem' = [mem EXCEPT ![a][w].active = FALSE]
            /\ reg' = [reg EXCEPT ![l] = @ (-) SetToBag({WReg(a, w)})]

ev_io_start(l, a, w)   == ev_start(l, a, w) /\ UNCHANGED wake
ev_io_stop(l, a, w)    == ev_stop(l, a, w) /\ UNCHANGED wake
ev_idle_start(l, a, w) == ev_start(l, a, w) /\ UNCHANGED wake
ev_idle_stop(l, a, w)  == ev_stop(l, a, w) /\ UNCHANGED wake

ev_async_start(l, a, w) ==
    /\ UNCHANGED <<pend, wake>>
    /\ IF mem[a][w].active
       THEN UNCHANGED <<mem, reg>>
       ELSE /\ mem' = [mem EXCEPT ![a][w].active = TRUE, ![a][w].sent = FALSE]
            /\ reg' = [reg EXCEPT ![l] = @ (+) SetToBag({WReg(a, w)})]

ev_async_stop(l, a, w) == ev_stop(l, a, w) /\ UNCHANGED wake

ev_async_send(l, a, w) ==
    /\ mem' = [mem EXCEPT ![a][w].sent = TRUE]
    /\ wake' = [wake EXCEPT ![l] = TRUE]
    /\ UNCHANGED <<reg, pend>>

\* ------------------------------------------------------------ the toggles
\* mutant: the toggle ignores its flag and always starts
Mut_ev_io_toggle(l, a, w, on) == ev_io_start(l, a, w)

ev_io_toggle(l, a, w, on) ==
    IF on THEN ev_io_start(l, a, w) ELSE ev_io_stop(l, a, w)

ev_idle_toggle(l, a, w, on) ==
    IF on THEN ev_idle_start(l, a, w) ELSE ev_idle_stop(l, a, w)

\* ------------------------------------------------------------------ Init
Init ==
    /\ variant \in Variants
    /\ mem = [a \in Addrs |-> natsLibevEvents]
    /\ live = {}
    /\ userData = NULL
    /\ detached = FALSE
    /\ stack = [t \in Threads |-> <<>>]
    /\ callLog = [t \in Threads |-> <<>>]
    /\ reg = [l \in Loops |-> EmptyBag]
    /\ wake = [l \in Loops |-> FALSE]
    /\ polled = [l \in Loops |-> NoPoll]
    /\ pend = [l \in Loops |-> {}]
    /\ rstate = [l \in Loops |-> "blocked"]
    /\ cur = [l \in Loops |-> NoEvent]
    /\ cbLog = [l \in Loops |-> <<>>]
    /\ uaf = FALSE
    /\ toggled = FALSE
    /\ stale = {}

\* a thread may call into the adapter: the client thread between its calls,
\* a reactor thread from inside a client hook
MayCall(t) ==
    /\ Idle
    /\ ~detached
    /\ t \in Loops => rstate[t] \in {"hook_r", "hook_w"}

Enter(t, frame) ==
    /\ stack' = [stack EXCEPT ![t] = <<frame>>]
    /\ callLog' = [callLog EXCEPT ![t] = <<>>]

\* ------------------------------------------------ the client's calls
\* (loops and connections are interchangeable: the first Attach is given
\* loop1 and nc1, a reconnect Attach any loop and any connection)
CallAttach(loop, nc, socket) ==
    /\ MayCall(client)
    /\ userData = NULL => (loop = "loop1" /\ nc = "nc1")
    /\ Enter(client, [NoFrame EXCEPT !.fn = "Attach", !.pc = "entry",
                         !.loop = loop, !.nc = nc, !.socket = socket])
    /\ UNCHANGED <<toggled, stale, variant, mem, live, userData, detached, uaf, reg, wake, pend,
                   loopVars>>

CallRead(t, add) ==
    /\ MayCall(t)
    /\ userData # NULL
    /\ Enter(t, [NoFrame EXCEPT !.fn = "Read", !.pc = "toggle",
                    !.nle = userData, !.add = add])
    /\ toggled' = TRUE
    /\ UNCHANGED <<stale, variant, mem, live, userData, detached, uaf, reg, wake, pend,
                   loopVars>>

CallWrite(t, add) ==
    /\ MayCall(t)
    /\ userData # NULL
    /\ Enter(t, [NoFrame EXCEPT !.fn = "Write", !.pc = "toggle",
                    !.nle = userData, !.add = add])
    /\ toggled' = TRUE
    /\ UNCHANGED <<stale, variant, mem, live, userData, detached, uaf, reg, wake, pend,
                   loopVars>>

CallDetach ==
    /\ MayCall(client)
    /\ userData # NULL
    /\ detached' = TRUE
    /\ Enter(client, [NoFrame EXCEPT !.fn = "Detach", !.pc = "stop_read",
                         !.nle = userData])
    /\ UNCHANGED <<toggled, stale, variant, mem, live, userData, uaf, reg, wake, pend, loopVars>>

\* return from the running function
Return(t) ==
    /\ Running(t)
    /\ Top(t).pc = "ret"
    /\ stack' = [stack EXCEPT ![t] = SubSeq(@, 1, Len(@) - 1)]
    /\ callLog' = [callLog EXCEPT ![t] = IF Len(stack[t]) = 1 THEN <<>> ELSE @]
    /\ UNCHANGED <<toggled, stale, variant, mem, live, userData, detached, uaf, reg, wake, pend,
                   loopVars>>

\* ------------------------------------------------------- natsLibev_Attach
\* malloc returns NULL or an unused block
malloc ==
    {NULL} \cup (IF Addrs \ live = {} THEN {}
                 ELSE {CHOOSE a \in Addrs \ live : \A b \in Addrs \ live : a <= b})

\* mutant: the failure is not reported
Mut_AllocFailed == NATS_OK

\* the status of an Attach whose malloc failed
AllocFailed == NATS_NO_MEMORY

\* mutant: the read watcher is given the write callback
Mut_ReadCb == "natsLibev_ProcessWriteEvent"

ReadCb  == IF variant = "idle" THEN "natsLibev_ProcessReadEvent"
                               ELSE "natsLibev_ProcessEvent"
WriteCb == IF variant = "idle" THEN "natsLibev_ProcessWriteEvent"
                               ELSE "natsLibev_ProcessEvent"

\* mutant: every Attach takes the first-attach path
Mut_IsFirstAttach(ud) == TRUE

\* first attach or reconnect
IsFirstAttach(ud) == ud = NULL

\* mutant: a reconnect stores the loop and the connection it is given
Mut_ReconnectState(s, f) == [s EXCEPT !.loop = f.loop, !.nc = f.nc]

\* the natsLibevEvents after the entry of a reconnect Attach: nc and loop are
\* assigned in the first-attach branch only
ReconnectState(s, f) == s

\* (no Attach reads its argument nc after this step: the frame drops it)
natsLibev_Attach_entry(t) ==
    /\ At(t, "Attach", "entry")
    /\ LET f == Top(t) IN
       IF IsFirstAttach(userData)
       THEN \E a \in malloc :
              IF a = NULL
              THEN /\ stack' = [stack EXCEPT ![t] = [@ EXCEPT ![Len(@)].pc = "ret",
                                   ![Len(@)].status = AllocFailed]]
                   /\ UNCHANGED <<mem, live>>
              ELSE /\ live' = live \cup {a}
                   /\ mem' = [mem EXCEPT ![a] = [natsLibevEvents EXCEPT
                                 !.nc = f.nc, !.loop = f.loop,
                                 !.keepActive.cb = "keepAliveCb"]]
                   /\ stack' = [stack EXCEPT ![t] = [@ EXCEPT ![Len(@)].nle = a,
                                   ![Len(@)].pc = "async_start",
                                   ![Len(@)].nc = NoFrame.nc]]
       ELSE /\ stack' = [stack EXCEPT ![t] = [@ EXCEPT ![Len(@)].nle = userData,
                                   ![Len(@)].pc = "stop_read",
                                   ![Len(@)].nc = NoFrame.nc]]
            /\ mem' = [mem EXCEPT ![userData] = ReconnectState(@, f)]
            /\ UNCHANGED live
    /\ UNCHANGED <<toggled, stale, variant, userData, detached, callLog, uaf, reg, wake, pend,
                   loopVars>>

\* mutant: the first Attach forgets to start keepActive
Mut_Attach_async_start(t) ==
    /\ At(t, "Attach", "async_start")
    /\ stack' = Goto(t, "init")
    /\ UNCHANGED <<toggled, stale, variant, mem, live, userData, detached, callLog,
                   uaf, reg, wake, pend, loopVars>>

natsLibev_Attach_async_start(t) ==
    /\ At(t, "Attach", "async_start")
    /\ LET a == Top(t).nle IN
       /\ Touch(a)
       /\ ev_async_start(mem[a].loop, a, "keepActive")
       /\ Log(t, a, "ev_async_start", "keepActive")
    /\ stack' = Goto(t, "init")
    /\ UNCHANGED <<toggled, stale, variant, live, userData, detached, loopVars>>

natsLibev_Attach_init(t) ==
    /\ At(t, "Attach", "init")
    /\ LET a == Top(t).nle IN
       /\ Touch(a)
       /\ mem' = [mem EXCEPT
             ![a].read  = [@ EXCEPT !.active = FALSE, !.cb = ReadCb, !.data = a],
             ![a].write = [@ EXCEPT !.active = FALSE, !.cb = WriteCb, !.data = a]]
    /\ stack' = Goto(t, "set_read")
    /\ UNCHANGED <<toggled, stale, variant, live, userData, detached, callLog, reg, wake, pend,
                   loopVars>>

\* mutant: the reconnect path forgets to stop the read watcher
Mut_Attach_stop_read(t) ==
    /\ At(t, "Attach", "stop_read")
    /\ stack' = Goto(t, "stop_write")
    /\ UNCHANGED <<toggled, stale, variant, mem, live, userData, detached, callLog,
                   uaf, reg, wake, pend, loopVars>>

natsLibev_Attach_stop_read(t) ==
    /\ At(t, "Attach", "stop_read")
    /\ LET a == Top(t).nle IN
       IF variant = "idle"
       THEN /\ stack' = Call(t, "stop_write", "Read", a, FALSE)
            /\ UNCHANGED <<mem, reg, wake, pend, callLog, uaf>>
       ELSE /\ Touch(a)
            /\ ev_io_stop(mem[a].loop, a, "read")
            /\ Log(t, a, "ev_io_stop", "read")
            /\ stack' = Goto(t, "stop_write")
    /\ UNCHANGED <<toggled, stale, variant, live, userData, detached, loopVars>>

\* mutant: the reconnect path forgets to stop the write watcher
Mut_Attach_stop_write(t) ==
    /\ At(t, "Attach", "stop_write")
    /\ stack' = Goto(t, "set_read")
    /\ UNCHANGED <<toggled, stale, variant, mem, live, userData, detached, callLog,
                   uaf, reg, wake, pend, loopVars>>

natsLibev_Attach_stop_write(t) ==
    /\ At(t, "Attach", "stop_write")
    /\ LET a == Top(t).nle IN
       IF variant = "idle"
       THEN /\ stack' = Call(t, "set_read", "Write", a, FALSE)
            /\ UNCHANGED <<mem, reg, wake, pend, callLog, uaf>>
       ELSE /\ Touch(a)
            /\ ev_io_stop(mem[a].loop, a, "write")
            /\ Log(t, a, "ev_io_stop", "write")
            /\ stack' = Goto(t, "set_read")
    /\ UNCHANGED <<toggled, stale, variant, live, userData, detached, loopVars>>

\* ev_io_set(w, fd, events)
ev_io_set(a, w, fd, events) ==
    mem' = [mem EXCEPT ![a][w].fd = fd, ![a][w].events = {events}]

natsLibev_Attach_set_read(t) ==
    /\ At(t, "Attach", "set_read")
    /\ LET a == Top(t).nle IN
       /\ Touch(a)
       /\ ev_io_set(a, "read", Top(t).socket, EV_READ)
       /\ Log(t, a, "ev_io_set", "read")
    /\ stack' = Goto(t, "start_read")
    /\ stale' = LET old == mem[Top(t).nle].read.fd IN
                (stale \cup (IF old = NULL THEN {} ELSE {old})) \ {Top(t).socket}
    /\ UNCHANGED <<toggled, variant, live, userData, detached, reg, wake, pend, loopVars>>

natsLibev_Attach_start_read(t) ==
    /\ At(t, "Attach", "start_read")
    /\ LET a == Top(t).nle IN
       IF variant = "idle"
       THEN /\ stack' = Call(t, "set_write", "Read", a, TRUE)
            /\ UNCHANGED <<mem, reg, wake, pend, callLog, uaf>>
       ELSE /\ Touch(a)
            /\ ev_io_start(mem[a].loop, a, "read")
            /\ Log(t, a, "ev_io_start", "read")
            /\ stack' = Goto(t, "set_write")
    /\ UNCHANGED <<toggled, stale, variant, live, userData, detached, loopVars>>

natsLibev_Attach_set_write(t) ==
    /\ At(t, "Attach", "set_write")
    /\ LET a == Top(t).nle IN
       /\ Touch(a)
       /\ IF variant = "idle"
          THEN /\ UNCHANGED mem
               /\ Log(t, a, "ev_idle_set", "write")
          ELSE /\ ev_io_set(a, "write", Top(t).socket, EV_WRITE)
               /\ Log(t, a, "ev_io_set", "write")
    /\ stack' = Goto(t, "store")
    /\ UNCHANGED <<toggled, stale, variant, live, userData, detached, reg, wake, pend, loopVars>>

natsLibev_Attach_store(t) ==
    /\ At(t, "Attach", "store")
    /\ userData' = Top(t).nle
    /\ stack' = Goto(t, "ret")
    /\ UNCHANGED <<toggled, stale, variant, mem, live, detached, callLog, uaf, reg, wake, pend,
                   loopVars>>

\* ------------------------------------------- natsLibev_Read, natsLibev_Write
\* mutant: natsLibev_Read toggles the write watcher
Mut_Read_toggle(t) ==
    /\ At(t, "Read", "toggle")
    /\ LET a == Top(t).nle IN
       /\ Touch(a)
       /\ ev_io_toggle(mem[a].loop, a, "write", Top(t).add)
       /\ Log(t, a, IF Top(t).add THEN "ev_io_start" ELSE "ev_io_stop", "read")
    /\ stack' = Goto(t, IF variant = "idle" THEN "send" ELSE "ret")
    /\ UNCHANGED <<toggled, stale, variant, live, userData, detached, loopVars>>

natsLibev_Read_toggle(t) ==
    /\ At(t, "Read", "toggle")
    /\ LET a == Top(t).nle IN
       /\ Touch(a)
       /\ ev_io_toggle(mem[a].loop, a, "read", Top(t).add)
       /\ Log(t, a, IF Top(t).add THEN "ev_io_start" ELSE "ev_io_stop", "read")
    /\ stack' = Goto(t, IF variant = "idle" THEN "send" ELSE "ret")
    /\ UNCHANGED <<toggled, stale, variant, live, userData, detached, loopVars>>

natsLibev_Read_send(t) ==
    /\ At(t, "Read", "send")
    /\ LET a == Top(t).nle IN
       /\ Touch(a)
       /\ ev_async_send(mem[a].loop, a, "keepActive")
       /\ Log(t, a, "ev_async_send", "keepActive")
    /\ stack' = Goto(t, "ret")
    /\ UNCHANGED <<toggled, stale, variant, live, userData, detached, loopVars>>

natsLibev_Write_toggle(t) ==
    /\ At(t, "Write", "toggle")
    /\ LET a == Top(t).nle IN
       /\ Touch(a)
       /\ IF variant = "idle"
          THEN /\ ev_idle_toggle(mem[a].loop, a, "write", Top(t).add)
               /\ Log(t, a, IF Top(t).add THEN "ev_idle_start" ELSE "ev_idle_stop", "write")
          ELSE /\ ev_io_toggle(mem[a].loop, a, "write", Top(t).add)
               /\ Log(t, a, IF Top(t).add THEN "ev_io_start" ELSE "ev_io_stop", "write")
    /\ stack' = Goto(t, IF variant = "idle" THEN "send" ELSE "ret")
    /\ UNCHANGED <<toggled, stale, variant, live, userData, detached, loopVars>>

natsLibev_Write_send(t) ==
    /\ At(t, "Write", "send")
    /\ LET a == Top(t).nle IN
       /\ Touch(a)
       /\ ev_async_send(mem[a].loop, a, "keepActive")
       /\ Log(t, a, "ev_async_send", "keepActive")
    /\ stack' = Goto(t, "ret")
    /\ UNCHANGED <<toggled, stale, variant, live, userData, detached, loopVars>>

\* ------------------------------------------------------- natsLibev_Detach
\* mutant: Detach forgets to stop the read watcher
Mut_Detach_stop_read(t) ==
    /\ At(t, "Detach", "stop_read")
    /\ stack' = Goto(t, "stop_write")
    /\ UNCHANGED <<toggled, stale, variant, mem, live, userData, detached, callLog,
                   uaf, reg, wake, pend, loopVars>>

natsLibev_Detach_stop_read(t) ==
    /\ At(t, "Detach", "stop_read")
    /\ LET a == Top(t).nle IN
       IF variant = "idle"
       THEN /\ stack' = Call(t, "stop_write", "Read", a, FALSE)
            /\ UNCHANGED <<mem, reg, wake, pend, callLog, uaf>>
       ELSE /\ Touch(a)
            /\ ev_io_stop(mem[a].loop, a, "read")
            /\ Log(t, a, "ev_io_stop", "read")
            /\ stack' = Goto(t, "stop_write")
    /\ UNCHANGED <<toggled, stale, variant, live, userData, detached, loopVars>>

natsLibev_Detach_stop_write(t) ==
    /\ At(t, "Detach", "stop_write")
    /\ LET a == Top(t).nle IN
       IF variant = "idle"
       THEN /\ stack' = Call(t, "async_stop", "Write", a, FALSE)
            /\ UNCHANGED <<mem, reg, wake, pend, callLog, uaf>>
       ELSE /\ Touch(a)
            /\ ev_io_stop(mem[a].loop, a, "write")
            /\ Log(t, a, "ev_io_stop", "write")
            /\ stack' = Goto(t, "async_send")
    /\ UNCHANGED <<toggled, stale, variant, live, userData, detached, loopVars>>

natsLibev_Detach_async_send(t) ==
    /\ At(t, "Detach", "async_send")
    /\ LET a == Top(t).nle IN
       /\ Touch(a)
       /\ ev_async_send(mem[a].loop, a, "keepActive")
       /\ Log(t, a, "ev_async_send", "keepActive")
    /\ stack' = Goto(t, "async_stop")
    /\ UNCHANGED <<toggled, stale, variant, live, userData, detached, loopVars>>

\* mutant: Detach forgets to stop keepActive
Mut_Detach_async_stop(t) ==
    /\ At(t, "Detach", "async_stop")
    /\ stack' = Goto(t, "free")
    /\ UNCHANGED <<toggled, stale, variant, mem, live, userData, detached, callLog,
                   uaf, reg, wake, pend, loopVars>>

natsLibev_Detach_async_stop(t) ==
    /\ At(t, "Detach", "async_stop")
    /\ LET a == Top(t).nle IN
       /\ Touch(a)
       /\ ev_async_stop(mem[a].loop, a, "keepActive")
       /\ Log(t, a, "ev_async_stop", "keepActive")
    /\ stack' = Goto(t, "free")
    /\ UNCHANGED <<toggled, stale, variant, live, userData, detached, loopVars>>

natsLibev_Detach_free(t) ==
    /\ At(t, "Detach", "free")
    /\ LET a == Top(t).nle IN
       /\ Touch(a)
       /\ live' = live \ {a}
    /\ stack' = Goto(t, "ret")
    /\ UNCHANGED <<toggled, stale, variant, mem, userData, detached, callLog, reg, wake, pend,
                   loopVars>>

\* ------------------------------------------------------- the reactor loop
\* the watcher types of natsLibevEvents
Kind(w) ==
    CASE w = "read"       -> "io"
      [] w = "keepActive" -> "async"
      [] OTHER            -> IF variant = "idle" THEN "idle" ELSE "io"

Regs(l) == BagToSet(reg[l])

\* the (fd, event) pairs of the started ev_io watchers of loop l
PollSet(l) ==
    UNION {{[fd |-> r.fd, ev |-> e] : e \in mem[r.a][r.w].events} :
             r \in {x \in Regs(l) : Kind(x.w) = "io"}}

IdleActive(l) == \E r \in Regs(l) : Kind(r.w) = "idle"

\* start of an iteration: apply the fd changes, decide whether to block
LoopPrepare(l) ==
    /\ rstate[l] = "prepare"
    /\ polled' = [polled EXCEPT ![l] =
                    [set |-> PollSet(l), nowait |-> IdleActive(l)]]
    /\ rstate' = [rstate EXCEPT ![l] = "blocked"]
    /\ UNCHANGED <<adapterVars, reg, wake, pend, cur, cbLog>>

\* events of the ev_io watchers now started on the fds found ready
IoEvents(l, ready) ==
    {e \in [a : Addrs, w : {"read", "write"}, revents : SUBSET {EV_READ, EV_WRITE},
            fd : Sockets] :
        /\ [a |-> e.a, w |-> e.w, fd |-> e.fd] \in Regs(l)
        /\ Kind(e.w) = "io"
        /\ e.revents = {x \in mem[e.a][e.w].events : [fd |-> e.fd, ev |-> x] \in ready}
        /\ e.revents # {}}

\* the ev_async watchers of loop l that were sent
AsyncSent(l) ==
    {r \in Regs(l) : Kind(r.w) = "async" /\ mem[r.a][r.w].sent}

AsyncEvents(l) ==
    IF wake[l]
    THEN {[a |-> r.a, w |-> r.w, revents |-> {EV_ASYNC}, fd |-> NULL] : r \in AsyncSent(l)}
    ELSE {}

IdleEvents(l) ==
    {[a |-> r.a, w |-> r.w, revents |-> {EV_IDLE}, fd |-> NULL] :
        r \in {x \in Regs(l) : Kind(x.w) = "idle"}}

\* the wait returns with the fds in ready; the events are collected
PollReturn(l, ready) ==
    /\ rstate[l] = "blocked"
    /\ LET got == pend[l] \cup IoEvents(l, ready) \cup AsyncEvents(l) IN
       pend' = [pend EXCEPT ![l] = IF got = {} THEN IdleEvents(l) ELSE got]
    /\ mem' = IF wake[l]
              THEN [a \in Addrs |-> IF [a |-> a, w |-> "keepActive", fd |-> NULL]
                                          \in AsyncSent(l)
                                    THEN [mem[a] EXCEPT !.keepActive.sent = FALSE]
                                    ELSE mem[a]]
              ELSE mem
    /\ wake' = [wake EXCEPT ![l] = FALSE]
    /\ polled' = [polled EXCEPT ![l] = NoPoll]
    /\ rstate' = [rstate EXCEPT ![l] = "dispatch"]
    /\ UNCHANGED <<toggled, stale, variant, live, userData, detached, stack, callLog, uaf, reg,
                   cur, cbLog>>

\* the wait ends because of the wake signal or because the loop does not block
LoopWake(l) ==
    /\ rstate[l] = "blocked"
    /\ wake[l] \/ polled[l].nowait
    /\ \E ready \in SUBSET polled[l].set : PollReturn(l, ready)

\* the wait ends because a polled socket is ready, or because of an event
\* of another watcher of the application (ready = {}); an iteration of a loop
\* that holds no watcher of the connection changes nothing and is left out
LoopEvent(l) ==
    /\ rstate[l] = "blocked"
    /\ reg[l] # EmptyBag
    /\ ~(wake[l] \/ polled[l].nowait)
    /\ \E ready \in SUBSET polled[l].set : PollReturn(l, ready)

\* invoke the callback of one pending event
LoopInvoke(l) ==
    /\ rstate[l] = "dispatch"
    /\ \E p \in pend[l] :
         /\ pend' = [pend EXCEPT ![l] = @ \ {p}]
         /\ cur' = [cur EXCEPT ![l] = p]
    /\ cbLog' = [cbLog EXCEPT ![l] = <<>>]
    /\ rstate' = [rstate EXCEPT ![l] = "cb"]
    /\ UNCHANGED <<adapterVars, reg, wake, polled>>

\* no pending event is left: next iteration
LoopIterate(l) ==
    /\ rstate[l] = "dispatch"
    /\ pend[l] = {}
    /\ rstate' = [rstate EXCEPT ![l] = "prepare"]
    /\ UNCHANGED <<adapterVars, reg, wake, pend, polled, cur, cbLog>>

\* ---------------------------------------------------- the adapter callbacks
Cb(l) == mem[cur[l].a][cur[l].w].cb

\* nle->nc as the callback reads it: any value once *nle is freed
ReadNc(a) == IF a \in live THEN {mem[a].nc} ELSE Conns

InvokeHook(l, hook, next) ==
    /\ Touch(cur[l].a)
    /\ \E nc \in ReadNc(cur[l].a) :
         cbLog' = [cbLog EXCEPT ![l] = Append(@, <<hook, nc>>)]
    /\ rstate' = [rstate EXCEPT ![l] = next]

natsLibev_ProcessReadEvent(l) ==
    /\ rstate[l] = "cb"
    /\ Cb(l) = "natsLibev_ProcessReadEvent"
    /\ InvokeHook(l, "natsConnection_ProcessReadEvent", "hook_r")
    /\ UNCHANGED <<toggled, stale, variant, mem, live, userData, detached, stack, callLog, reg,
                   wake, pend, polled, cur>>

natsLibev_ProcessWriteEvent(l) ==
    /\ rstate[l] = "cb"
    /\ Cb(l) = "natsLibev_ProcessWriteEvent"
    /\ InvokeHook(l, "natsConnection_ProcessWriteEvent", "hook_w")
    /\ UNCHANGED <<toggled, stale, variant, mem, live, userData, detached, stack, callLog, reg,
                   wake, pend, polled, cur>>

natsLibev_ProcessEvent_read(l) ==
    /\ rstate[l] = "cb"
    /\ Cb(l) = "natsLibev_ProcessEvent"
    /\ IF EV_READ \in cur[l].revents
       THEN InvokeHook(l, "natsConnection_ProcessReadEvent", "hook_r")
       ELSE /\ Touch(cur[l].a)
            /\ rstate' = [rstate EXCEPT ![l] = "cb_w"]
            /\ UNCHANGED cbLog
    /\ UNCHANGED <<toggled, stale, variant, mem, live, userData, detached, stack, callLog, reg,
                   wake, pend, polled, cur>>

natsLibev_ProcessEvent_write(l) ==
    /\ rstate[l] = "cb_w"
    /\ IF EV_WRITE \in cur[l].revents
       THEN InvokeHook(l, "natsConnection_ProcessWriteEvent", "hook_w")
       ELSE /\ rstate' = [rstate EXCEPT ![l] = "cb_ret"]
            /\ UNCHANGED <<cbLog, uaf>>
    /\ UNCHANGED <<toggled, stale, variant, mem, live, userData, detached, stack, callLog, reg,
                   wake, pend, polled, cur>>

keepAliveCb(l) ==
    /\ rstate[l] = "cb"
    /\ Cb(l) = "keepAliveCb"
    /\ rstate' = [rstate EXCEPT ![l] = "cb_ret"]
    /\ UNCHANGED <<adapterVars, reg, wake, pend, polled, cur, cbLog>>

\* the client hook returns into the callback
HookReturn(l) ==
    /\ rstate[l] \in {"hook_r", "hook_w"}
    /\ ~Running(l)
    /\ rstate' = [rstate EXCEPT ![l] =
                    IF rstate[l] = "hook_r" /\ Cb(l) = "natsLibev_ProcessEvent"
                    THEN "cb_w" ELSE "cb_ret"]
    /\ UNCHANGED <<adapterVars, reg, wake, pend, polled, cur, cbLog>>

\* the callback returns into the loop
CbReturn(l) ==
    /\ rstate[l] = "cb_ret"
    /\ rstate' = [rstate EXCEPT ![l] = "dispatch"]
    /\ cur' = [cur EXCEPT ![l] = NoEvent]
    /\ cbLog' = [cbLog EXCEPT ![l] = <<>>]
    /\ UNCHANGED <<adapterVars, reg, wake, pend, polled>>

\* ------------------------------------------------------------------- Next
Next ==
    \/ \E loop \in Loops, nc \in Conns, socket \in Sockets : CallAttach(loop, nc, socket)
    \/ \E t \in Threads, add \in BOOLEAN : CallRead(t, add)
    \/ \E t \in Threads, add \in BOOLEAN : CallWrite(t, add)
    \/ CallDetach
    \/ \E t \in Threads : Return(t)
    \/ \E t \in Threads : natsLibev_Attach_entry(t)
    \/ \E t \in Threads : natsLibev_Attach_async_start(t)
    \/ \E t \in Threads : natsLibev_Attach_init(t)
    \/ \E t \in Threads : natsLibev_Attach_stop_read(t)
    \/ \E t \in Threads : natsLibev_Attach_stop_write(t)
    \/ \E t \in Threads : natsLibev_Attach_set_read(t)
    \/ \E t \in Threads : natsLibev_Attach_start_read(t)
    \/ \E t \in Threads : natsLibev_Attach_set_write(t)
    \/ \E t \in Threads : natsLibev_Attach_store(t)
    \/ \E t \in Threads : natsLibev_Read_toggle(t)
    \/ \E t \in Threads : natsLibev_Read_send(t)
    \/ \E t \in Threads : natsLibev_Write_toggle(t)
    \/ \E t \in Threads : natsLibev_Write_send(t)
    \/ \E t \in Threads : natsLibev_Detach_stop_read(t)
    \/ \E t \in Threads : natsLibev_Detach_stop_write(t)
    \/ \E t \in Threads : natsLibev_Detach_async_send(t)
    \/ \E t \in Threads : natsLibev_Detach_async_stop(t)
    \/ \E t \in Threads : natsLibev_Detach_free(t)
    \/ \E l \in Loops : LoopPrepare(l)
    \/ \E l \in Loops : LoopWake(l)
    \/ \E l \in Loops : LoopEvent(l)
    \/ \E l \in Loops : LoopInvoke(l)
    \/ \E l \in Loops : LoopIterate(l)
    \/ \E l \in Loops : natsLibev_ProcessReadEvent(l)
    \/ \E l \in Loops : natsLibev_ProcessWriteEvent(l)
    \/ \E l \in Loops : natsLibev_ProcessEvent_read(l)
    \/ \E l \in Loops : natsLibev_ProcessEvent_write(l)
    \/ \E l \in Loops : keepAliveCb(l)
    \/ \E l \in Loops : HookReturn(l)
    \/ \E l \in Loops : CbReturn(l)

Spec == Init /\ [][Next]_vars

\* ================================================================ claims
\* the top-level call fn of thread t is at its return statement
Returns(t, fn) == At(t, fn, "ret") /\ Len(stack[t]) = 1

\* the libev calls of the running entry point that stopped an active watcher w
StoppedActive(t, w) ==
    \E i \in 1..Len(callLog[t]) :
        /\ callLog[t][i].w = w
        /\ callLog[t][i].op \in {"ev_io_stop", "ev_idle_stop", "ev_async_stop"}
        /\ callLog[t][i].active

\* C1: once Detach is at its return (and ever after) no loop holds a started
\* read, write or keepActive watcher of the connection, nor a pending event
\* of one, whether or not Read and Write were ever called.
C1_NoWatcherAfterDetach ==
    (detached /\ (Returns(client, "Detach") \/ ~Running(client))) =>
        /\ \A l \in Loops : reg[l] = EmptyBag /\ pend[l] = {}
        /\ ~mem[userData].read.active
        /\ ~mem[userData].write.active
        /\ ~mem[userData].keepActive.active

\* C1 witness: Detach returns on a connection whose Read and Write were never
\* called, after it stopped the started read watcher and keepActive.
C1_Witness ==
    /\ Returns(client, "Detach")
    /\ ~toggled
    /\ StoppedActive(client, "read")
    /\ StoppedActive(client, "keepActive")

\* C2: at the return of every successful Attach the read watcher is started
\* on the loop exactly once, bound to the socket of this call, and the write
\* watcher is stopped.
C2_AttachReadActiveWriteInactive ==
    \A t \in Threads :
        (Returns(t, "Attach") /\ Top(t).status = NATS_OK) =>
            LET a == Top(t).nle IN
            /\ userData = a
            /\ mem[a].read.active
            /\ mem[a].read.fd = Top(t).socket
            /\ CopiesIn([a |-> a, w |-> "read", fd |-> Top(t).socket],
                        reg[mem[a].loop]) = 1
            /\ ~mem[a].write.active
            /\ \A l \in Loops : \A r \in Regs(l) :
                   r.w = "read" => (l = mem[a].loop /\ r.fd = Top(t).socket)
            /\ \A l \in Loops : \A r \in Regs(l) : r.w # "write"

\* C2 witness: a reconnect Attach returns that found the write watcher (and
\* the read watcher) started.
C2_Witness ==
    /\ Returns(client, "Attach")
    /\ Top(client).status = NATS_OK
    /\ StoppedActive(client, "write")
    /\ StoppedActive(client, "read")

\* C3: from the moment a reconnect Attach has rebound the read watcher, no
\* watcher is started on a socket the connection has left, no event of such a
\* socket is pending, and no callback is invoked for one.
C3_NoStaleRegistration ==
    \A l \in Loops :
        /\ \A r \in Regs(l) : r.fd \notin stale
        /\ \A p \in pend[l] : p.fd \notin stale

C3_NoStaleInvoke ==
    \A l \in Loops :
        (rstate[l] = "dispatch" /\ rstate'[l] = "cb") => cur'[l].fd \notin stale'

C3_NoCallbackForOldSocket ==
    []C3_NoStaleRegistration /\ [][C3_NoStaleInvoke]_vars

\* C3 witness: after a reconnect to another socket the read callback is
\* invoked (for the new socket).
C3_Witness ==
    /\ stale # {}
    /\ Idle
    /\ \E l \in Loops : rstate[l] = "cb" /\ cur[l].w = "read" /\ cur[l].fd \in Sockets

\* the entries of the running call's log
LogLen(t)  == Len(callLog[t])
LastOp(t)  == callLog[t][LogLen(t)]
PrevOp(t)  == callLog[t][LogLen(t) - 1]

\* C4: when natsLibev_Read or natsLibev_Write is at its return, its last two
\* libev calls were the start/stop of its watcher and then ev_async_send.
C4_ToggleSignalsWake ==
    \A t \in Threads :
        (Running(t) /\ Top(t).fn \in {"Read", "Write"} /\ Top(t).pc = "ret") =>
            /\ LogLen(t) >= 2
            /\ LastOp(t).op = "ev_async_send"
            /\ PrevOp(t).w = (IF Top(t).fn = "Read" THEN "read" ELSE "write")
            /\ PrevOp(t).op \in {"ev_io_start", "ev_io_stop",
                                 "ev_idle_start", "ev_idle_stop"}

\* C5: when a successful Attach is at its return, it has sent keepActive
\* after it started the read watcher.
C5_AttachSignalsWake ==
    \A t \in Threads :
        (Returns(t, "Attach") /\ Top(t).status = NATS_OK) =>
            \E i, j \in 1..LogLen(t) :
                /\ i < j
                /\ callLog[t][i].op = "ev_io_start" /\ callLog[t][i].w = "read"
                /\ callLog[t][j].op = "ev_async_send"

\* the loop has taken the started watcher r into account for its current wait
Observed(l, r) ==
    IF Kind(r.w) = "idle" THEN polled[l].nowait
    ELSE \E e \in mem[r.a][r.w].events : [fd |-> r.fd, ev |-> e] \in polled[l].set

\* C6: once Write(state, true) has returned, the reactor is never blocked in
\* its wait with the started write watcher unobserved and no wake signal
\* pending: the signal ends the wait and the write-ready hook can run.
C6_WriteObservedOrWakePending ==
    \A l \in Loops : \A r \in Regs(l) :
        (r.w = "write" /\ rstate[l] = "blocked" /\ Idle /\ ~Observed(l, r))
            => wake[l]

\* the watcher a Read or Write frame toggles
Toggled(f) == IF f.fn = "Read" THEN "read" ELSE "write"

\* the number of registrations of watcher w of block a, over all loops and fds
RegCount(a, w) ==
    LET keys == {k \in [l : Loops, fd : Sockets \cup {NULL}] :
                    CopiesIn([a |-> a, w |-> w, fd |-> k.fd], reg[k.l]) > 0}
        Sum[S \in SUBSET keys] ==
            IF S = {} THEN 0
            ELSE LET k == CHOOSE x \in S : TRUE
                 IN CopiesIn([a |-> a, w |-> w, fd |-> k.fd], reg[k.l]) + Sum[S \ {k}]
    IN Sum[keys]

\* C7 (state part): at the return of Read(state, e) / Write(state, e) the
\* watcher is active iff e, registered once iff e, and the status is Ok; no
\* watcher is ever registered more than once.
C7_SetterPost ==
    /\ \A t \in Threads :
         (Running(t) /\ Top(t).fn \in {"Read", "Write"} /\ Top(t).pc = "ret") =>
             LET f == Top(t) IN
             /\ f.status = NATS_OK
             /\ mem[f.nle][Toggled(f)].active = f.add
             /\ RegCount(f.nle, Toggled(f)) = (IF f.add THEN 1 ELSE 0)
    /\ \A a \in Addrs : \A w \in {"read", "write", "keepActive"} : RegCount(a, w) <= 1

\* C7 (step part): the toggle of a Read/Write whose watcher already is in the
\* requested state changes neither the watcher, nor the registrations, nor
\* the pending events.
C7_SetterNoOp ==
    \A t \in Threads :
        (/\ Running(t) /\ Top(t).fn \in {"Read", "Write"} /\ Top(t).pc = "toggle"
         /\ stack'[t] # stack[t]
         /\ mem[Top(t).nle][Toggled(Top(t))].active = Top(t).add)
        => (/\ mem'[Top(t).nle][Toggled(Top(t))] = mem[Top(t).nle][Toggled(Top(t))]
            /\ reg' = reg
            /\ pend' = pend)

\* C7: Read and Write are idempotent setters of their watcher.
C7_IdempotentSetters == []C7_SetterPost /\ [][C7_SetterNoOp]_vars

\* C7 witness: Read(state, true) returns on a read watcher that was already
\* started.
C7_Witness ==
    /\ Returns(client, "Read")
    /\ Top(client).add
    /\ \E i \in 1..LogLen(client) :
          callLog[client][i].op = "ev_io_start" /\ callLog[client][i].active

\* C8 (state part): at most one natsLibevEvents is live, and it is the one
\* the client's handle names once Attach has stored it.
C8_OneState ==
    /\ Cardinality(live) <= 1
    /\ (userData # NULL /\ live # {}) => live = {userData}
    /\ Returns(client, "Detach") => live = {}

\* C8 (step part): a block is allocated only by the entry of an Attach whose
\* handle is NULL, the handle never changes once set (a reconnect Attach
\* stores the handle it was given), and a block is freed only by Detach's
\* free, which frees the live block of the handle.
C8_AllocFreeSteps ==
    /\ (live' \ live # {}) =>
           (At(client, "Attach", "entry") /\ userData = NULL /\ live = {})
    /\ (userData # NULL) => (userData' = userData)
    /\ (live \ live' # {}) =>
           (At(client, "Detach", "free") /\ live \ live' = {userData})
    /\ \A t \in Threads :
           (At(t, "Detach", "free") /\ stack'[t] # stack[t]) => Top(t).nle \in live
    /\ \A t \in Threads :
           (At(t, "Attach", "store") /\ stack'[t] # stack[t] /\ userData # NULL)
               => Top(t).nle = userData

\* C8: one natsLibevEvents per connection, allocated by the first Attach,
\* reused by reconnect, freed once by Detach.
C8_SingleAdapterState == []C8_OneState /\ [][C8_AllocFreeSteps]_vars

\* C8 witness: Detach has freed the block after a reconnect to another socket.
C8_Witness ==
    /\ Returns(client, "Detach")
    /\ stale # {}
    /\ live = {}
    /\ userData # NULL

\* nothing of the connection is registered with any loop
NothingRegistered == \A l \in Loops : reg[l] = EmptyBag /\ pend[l] = {}

\* C9: an Attach whose malloc failed (its nle is NULL at the return) returns
\* NATS_NO_MEMORY with the handle still NULL and nothing registered; no other
\* return carries NATS_NO_MEMORY, every other call returns NATS_OK.
C9_NoMemoryOnlyFirstAttach ==
    \A t \in Threads :
        (Running(t) /\ Top(t).pc = "ret") =>
            IF Top(t).fn = "Attach" /\ Top(t).nle = NULL
            THEN /\ Top(t).status = NATS_NO_MEMORY
                 /\ userData = NULL
                 /\ live = {}
                 /\ NothingRegistered
            ELSE Top(t).status = NATS_OK

\* C9 witness: a first Attach returns NATS_NO_MEMORY.
C9_Witness ==
    /\ Returns(client, "Attach")
    /\ Top(client).status = NATS_NO_MEMORY
    /\ Top(client).nle = NULL

\* the hooks the running callback of loop l has invoked
Hooks(l) == [i \in 1..Len(cbLog[l]) |-> cbLog[l][i][1]]

\* the hooks one notification of the event e has to invoke
ExpectedHooks(e) ==
    CASE e.w = "read"  -> <<"natsConnection_ProcessReadEvent">>
      [] e.w = "write" -> <<"natsConnection_ProcessWriteEvent">>
      [] OTHER         -> <<>>

IsPrefix(s, r) == Len(s) <= Len(r) /\ \A i \in 1..Len(s) : s[i] = r[i]

\* C10: a callback invokes only the hook of its watcher and at most once;
\* when it returns it has invoked it exactly once, and keepAliveCb none.
C10_OneHookPerNotification ==
    \A l \in Loops :
        /\ rstate[l] \in {"cb", "cb_w", "hook_r", "hook_w", "cb_ret"} =>
               IsPrefix(Hooks(l), ExpectedHooks(cur[l]))
        /\ rstate[l] = "cb_ret" => Hooks(l) = ExpectedHooks(cur[l])
        /\ rstate[l] = "hook_r" => cur[l].w = "read"
        /\ rstate[l] = "hook_w" => cur[l].w = "write"

\* C10 witness: the callback of a read-ready notification of the read watcher
\* returns.
C10_Witness ==
    \E l \in Loops :
        /\ rstate[l] = "cb_ret"
        /\ cur[l].w = "read"
        /\ cur[l].revents = {EV_READ}
        /\ Len(cbLog[l]) = 1

\* C11: no callback reads a natsLibevEvents that Detach has freed.
C11_NoUseAfterFree == ~uaf

\* the positions in the running call's log of the libev calls op on watcher w
Positions(t, ops, w) ==
    {i \in 1..LogLen(t) : callLog[t][i].op \in ops /\ callLog[t][i].w = w}

StopOps == {"ev_io_stop", "ev_idle_stop", "ev_async_stop"}
SetOps  == {"ev_io_set", "ev_idle_set"}

\* the running Attach of thread t took the reconnect path
IsReconnect(t) ==
    /\ Running(t) /\ stack[t][1].fn = "Attach"
    /\ LogLen(t) > 0 /\ callLog[t][1].op # "ev_async_start"

\* C12 (state part): every ev_io_set / ev_idle_set of an Attach found its
\* watcher stopped, and in a reconnect the stops of both watchers precede it.
C12_SetWhileStopped ==
    \A t \in Threads : \A w \in {"read", "write"} :
        \A i \in Positions(t, SetOps, w) :
            /\ ~callLog[t][i].active
            /\ IsReconnect(t) =>
                   \A v \in {"read", "write"} :
                       \E j \in Positions(t, StopOps, v) : j < i

\* C12 (step part): the fd of a watcher changes only while it is stopped.
C12_RebindStep ==
    \A a \in Addrs : \A w \in {"read", "write"} :
        (a \in live /\ mem'[a][w].fd # mem[a][w].fd) => ~mem[a][w].active

\* C12: a watcher is never rebound while active.
C12_NeverReboundWhileActive == []C12_SetWhileStopped /\ [][C12_RebindStep]_vars

\* C12 witness: a reconnect Attach has just rebound the read watcher, which
\* was started when the call began.
C12_Witness ==
    /\ At(client, "Attach", "start_read")
    /\ IsReconnect(client)
    /\ StoppedActive(client, "read")
    /\ LastOp(client).op = "ev_io_set"

\* Detach has stopped keepActive
WakeStopped ==
    detached /\ (~Running(client) \/ stack[client][1].pc \in {"free", "ret"})

\* C13 (state part): from the store of the first Attach until Detach stops
\* it, keepActive is started, exactly once, on the loop of the state.
C13_WakeStarted ==
    (userData # NULL /\ ~WakeStopped) =>
        /\ mem[userData].keepActive.active
        /\ RegCount(userData, "keepActive") = 1
        /\ CopiesIn([a |-> userData, w |-> "keepActive", fd |-> NULL],
                    reg[mem[userData].loop]) = 1

\* C13 (step part): keepActive is started only by the first Attach's
\* ev_async_start and stopped only by Detach's ev_async_stop; no call starts a
\* started keepActive again.
C13_WakeSteps ==
    /\ \A a \in Addrs :
         (a \in live /\ mem'[a].keepActive.active # mem[a].keepActive.active) =>
             \/ At(client, "Attach", "async_start") /\ userData = NULL
             \/ At(client, "Detach", "async_stop")
    /\ \A t \in Threads : \A i \in Positions(t, {"ev_async_start"}, "keepActive") :
         ~callLog[t][i].active /\ ~IsReconnect(t)

\* C13: the wake primitive stays started for the life of the state.
C13_WakeAlwaysStarted == []C13_WakeStarted /\ [][C13_WakeSteps]_vars

\* C13 witness: a reconnect Attach returns after Read/Write calls, keepActive
\* still started.
C13_Witness ==
    /\ Returns(client, "Attach")
    /\ IsReconnect(client)
    /\ toggled
    /\ mem[userData].keepActive.active

\* the watcher whose hook the reactor is running
HookWatcher(st) == IF st = "hook_r" THEN "read" ELSE "write"

\* C14: when a callback invokes a client hook, the hook's watcher is started.
C14_HookStep ==
    \A l \in Loops :
        (rstate'[l] \in {"hook_r", "hook_w"} /\ rstate[l] \notin {"hook_r", "hook_w"})
            => mem[cur[l].a][HookWatcher(rstate'[l])].active

C14_HookOnlyWhileActive == [][C14_HookStep]_vars

\* C15 (state part): in Detach's libev calls the stops of read and write come
\* before ev_async_stop, every ev_async_send comes before it, it is the last
\* libev call, and free comes after it.
C15_DetachOrderState ==
    \A t \in Threads :
        (Running(t) /\ stack[t][1].fn = "Detach") =>
            /\ \A s \in Positions(t, {"ev_async_stop"}, "keepActive") :
                 /\ s = LogLen(t)
                 /\ \E i \in Positions(t, StopOps, "read") : i < s
                 /\ \E i \in Positions(t, StopOps, "write") : i < s
                 /\ \A i \in Positions(t, {"ev_async_send"}, "keepActive") : i < s
            /\ stack[t][1].pc \in {"free", "ret"} =>
                 Positions(t, {"ev_async_stop"}, "keepActive") # {}
            /\ (stack[t][1].pc = "ret") <=> (stack[t][1].nle \notin live)

\* C15 (step part): free is the last step of Detach that touches the state;
\* at the free every watcher of the state is stopped.
C15_DetachOrderStep ==
    (live \ live' # {}) =>
        /\ LogLen(client) > 0
        /\ LastOp(client).op = "ev_async_stop"
        /\ \A l \in Loops : reg[l] = EmptyBag
        /\ callLog' = callLog

\* C15: Detach stops the watchers, then the wake primitive, then frees.
C15_DetachOrder == []C15_DetachOrderState /\ [][C15_DetachOrderStep]_vars

\* C15 witness: Detach returns after it stopped a started read watcher, a
\* started write watcher and keepActive.
C15_Witness ==
    /\ Returns(client, "Detach")
    /\ StoppedActive(client, "read")
    /\ StoppedActive(client, "write")
    /\ StoppedActive(client, "keepActive")

\* C16 (state part): the state keeps the loop and the connection of the first
\* Attach (loop1, nc1), and nothing of the adapter is registered, woken or
\* pending on another loop.
C16_FirstAttachState ==
    /\ (userData # NULL /\ userData \in live) =>
           /\ mem[userData].loop = "loop1"
           /\ mem[userData].nc = "nc1"
    /\ reg["loop2"] = EmptyBag
    /\ ~wake["loop2"]
    /\ pend["loop2"] = {}

\* C16 (step part): no step changes nc or loop of a live state, and a hook
\* invoked on a live state is given the connection of the first Attach.
C16_FirstAttachStep ==
    /\ \A a \in live \cap live' :
         /\ mem'[a].nc = mem[a].nc
         /\ mem'[a].loop = mem[a].loop
    /\ \A l \in Loops :
         (/\ rstate'[l] \in {"hook_r", "hook_w"}
          /\ rstate[l] \notin {"hook_r", "hook_w"}
          /\ cur[l].a \in live)
            => /\ l = "loop1"
               /\ cbLog'[l][Len(cbLog'[l])][2] = "nc1"

\* C16: a reconnect Attach does not replace the stored connection or loop.
C16_ReconnectKeepsLoopAndNc ==
    []C16_FirstAttachState /\ [][C16_FirstAttachStep]_vars

\* C16 witness: a reconnect Attach that was given loop2 returns; the read
\* watcher it restarted is registered on loop1.
C16_Witness ==
    /\ Returns(client, "Attach")
    /\ IsReconnect(client)
    /\ Top(client).loop = "loop2"
    /\ StoppedActive(client, "read")
    /\ \E r \in Regs("loop1") : r.a = userData /\ r.w = "read"

\* all of the state and of the registrations except watcher w's active flag
\* and watcher w's registration is the same after the step
OnlyToggles(a, w) ==
    /\ \A v \in {"read", "write", "keepActive"} \ {w} :
         /\ mem'[a][v].active = mem[a][v].active
         /\ mem'[a][v].fd = mem[a][v].fd
         /\ mem'[a][v].events = mem[a][v].events
         /\ mem'[a][v].cb = mem[a][v].cb
         /\ mem'[a][v].data = mem[a][v].data
    /\ [mem'[a][w] EXCEPT !.active = mem[a][w].active] = mem[a][w]
    /\ mem'[a].nc = mem[a].nc
    /\ mem'[a].loop = mem[a].loop
    /\ \A b \in Addrs \ {a} : mem'[b] = mem[b]
    /\ live' = live /\ userData' = userData
    /\ \A l \in Loops : \A r \in Regs(l) \cup BagToSet(reg'[l]) :
         (r.a # a \/ r.w # w) => CopiesIn(r, reg'[l]) = CopiesIn(r, reg[l])

\* C17: every step of natsLibev_Read changes at most the read watcher's active
\* flag and registration, and every step of natsLibev_Write at most the write
\* watcher's.
C17_ToggleStep ==
    \A t \in Threads :
        (Running(t) /\ Top(t).fn \in {"Read", "Write"} /\ stack'[t] # stack[t])
            => OnlyToggles(Top(t).nle, Toggled(Top(t)))

C17_ReadWriteFrame == [][C17_ToggleStep]_vars

\* C17 witness: Read(state, false) returns having stopped a started read
\* watcher while the write watcher is started.
C17_Witness ==
    /\ Returns(client, "Read")
    /\ ~Top(client).add
    /\ StoppedActive(client, "read")
    /\ mem[userData].write.active
    /\ mem[userData].keepActive.active

====
